---- MODULE Spec2Model ----
(***************************************************************************)
(* hdx-scraper-arabstate-viz: the tab-assembly functions of                *)
(* scrapers/utilities/update_tabs.py (specification SpecTabs) and the      *)
(* control flow of run.main / scrapers.main.get_indicators (specification  *)
(* SpecRun).                                                               *)
(*                                                                         *)
(* A tab is a sequence of rows, a row a sequence of cells, a cell a        *)
(* string.  Python's None in a cell is the string None; an empty list or   *)
(* tuple is << >>, the only falsy table.                                   *)
(***************************************************************************)
EXTENDS Integers, Sequences, FiniteSets, TLC

VARIABLES
    outputs,     \* the outputs mapping: sink name -> class of the sink instance
    op,          \* update_tabs.py: the operation that ran ("none" before)
    args,        \* its arguments
    raised,      \* the exception that left it ("none" when it returned)
    assembled,   \* the data it passed to update_tab (<< >> when it did not)
    calls,       \* per sink of the mapping, the update_tab(name, data) calls received
    content,     \* per sink and tab name, what the sink holds
    entry,       \* SpecRun: "main" (run.main), "call" (a caller of get_indicators), "idle"
    pc,          \* SpecRun: position in the caller and in get_indicators
    cli,         \* SpecRun: the arguments of the entry point
    tabs,        \* SpecRun: get_indicators' tabs argument
    countries,   \* SpecRun: get_indicators' local countries
    events,      \* SpecRun: the calls made so far, in order
    updates,     \* SpecRun: the tabs the writer was asked to update, in order
    nationalArg, \* SpecRun: the countries passed to writer.update_national
    returned     \* SpecRun: what get_indicators returned

tabVars == <<op, args, raised, assembled, calls, content>>
runVars == <<entry, pc, cli, tabs, countries, events, updates, nationalArg, returned>>
vars == <<outputs, tabVars, runVars>>

(***************************************************************************)
(* Bounds of the model.                                                    *)
(***************************************************************************)
MaxRows == 2      \* data rows of an input table, entries of an input list

(***************************************************************************)
(* Python values.                                                          *)
(***************************************************************************)
None == "<None>"
KeyError == "<KeyError>"     \* the outcome of d[k] for a key d does not hold

SeqsUpTo(S, n) == UNION {[1..k -> S] : k \in 0..n}

Range(s) == {s[i] : i \in 1..Len(s)}

\* list.index(x): the first position of x
IndexOf(s, x) == CHOOSE i \in 1..Len(s) : s[i] = x /\ \A j \in 1..(i - 1) : s[j] # x

\* dict.get(k): None for a missing key
DictGet(d, k) == IF k \in DOMAIN d THEN d[k] ELSE None

(***************************************************************************)
(* update_tabs.py: the header constants.                                   *)
(***************************************************************************)
regions_headers == << <<"regionnames">>, <<"#region+name">> >>

national_headers_swapped ==
    << <<"countryname", "iso3">>, <<"#country+name", "#country+code">> >>

national_headers ==
    << <<"iso3", "countryname">>, <<"#country+code", "#country+name">> >>

subnational_headers ==
    << <<"iso3", "countryname", "adm1_pcode", "adm1_name">>,
       <<"#country+code", "#country+name", "#adm1+code", "#adm1+name">> >>

sources_headers ==
    << <<"Indicator", "Date", "Source", "Url">>,
       <<"#indicator+name", "#date", "#meta+source", "#meta+url">> >>

(***************************************************************************)
(* The sinks.  run.py builds the mapping with the keys gsheets, excel and  *)
(* json, in that order; a slot holds its own class or the no-op BaseOutput.*)
(***************************************************************************)
SinkOrder == <<"gsheets", "excel", "json">>
SinkNames == Range(SinkOrder)
SinkClass == [gsheets |-> "GoogleSheets", excel |-> "ExcelFile", json |-> "JsonFile"]
NoOp == "BaseOutput"

OutputsMappings ==
    UNION {{f \in [D -> {"GoogleSheets", "ExcelFile", "JsonFile", NoOp}] :
               \A k \in D : f[k] \in {SinkClass[k], NoOp}} : D \in SUBSET SinkNames}

TabNames == {"national", "regional", "allregions", "subnational", "sources"}

Prior == << <<"prior">> >>     \* what a sink holds from before the operation

\* output.update_tab(name, data): a real sink stores the tab, BaseOutput does nothing
SinkUpdateTab(class, held, name, data) ==
    IF class = NoOp THEN held ELSE [held EXCEPT ![name] = data]

(***************************************************************************)
(* update_tab: return on falsy data, else one call per value of the        *)
(* mapping, in the mapping's order.  The result is the calls each sink     *)
(* received.                                                               *)
(***************************************************************************)
NoCalls(outs) == [k \in DOMAIN outs |-> << >>]

RECURSIVE FanOutFirstOnly(_, _, _, _, _)
FanOutFirstOnly(i, outs, name, data, cs) ==
    IF i > Len(SinkOrder) THEN cs
    ELSE IF SinkOrder[i] \in DOMAIN outs
         THEN [cs EXCEPT ![SinkOrder[i]] = Append(@, [name |-> name, data |-> data])]
         ELSE FanOutFirstOnly(i + 1, outs, name, data, cs)

RECURSIVE FanOut(_, _, _, _, _)
FanOut(i, outs, name, data, cs) ==
    IF i > Len(SinkOrder) THEN cs
    ELSE IF SinkOrder[i] \in DOMAIN outs
         THEN FanOut(i + 1, outs, name, data,
                     [cs EXCEPT ![SinkOrder[i]] = Append(@, [name |-> name, data |-> data])])
         ELSE FanOut(i + 1, outs, name, data, cs)

update_tab(outs, name, data) ==
    IF data = << >> THEN NoCalls(outs)
    ELSE FanOut(1, outs, name, data, NoCalls(outs))

\* What an operation hands back to the action that ran it.
Returned(called, name, data) ==
    [raised |-> "none", called |-> called, name |-> name, data |-> data]
Raised(exc, name) ==
    [raised |-> exc, called |-> FALSE, name |-> name, data |-> << >>]

(***************************************************************************)
(* update_allregions.  The tables it is given hold "#region+name" in their *)
(* HXL row and, when not empty, three rows or more, as runner.get_rows     *)
(* builds them (list.index and the subscripts then raise nothing).         *)
(***************************************************************************)
\* the positions i of the HXL row with hxltag # "#region+name", in order
RECURSIVE OtherColumns(_, _)
OtherColumns(hxl, i) ==
    IF i > Len(hxl) THEN << >>
    ELSE IF hxl[i] = "#region+name" THEN OtherColumns(hxl, i + 1)
         ELSE <<i>> \o OtherColumns(hxl, i + 1)

Pick(row, idxs) == [k \in 1..Len(idxs) |-> row[idxs[k]]]

\* rows_to_insert[which] after the loop over regions_rows[2:], from row r on
RECURSIVE rows_to_insert(_, _, _)
rows_to_insert(regions_rows, which, r) ==
    IF r > Len(regions_rows) THEN << >>
    ELSE LET adm_header == IndexOf(regions_rows[2], "#region+name")
             idxs == OtherColumns(regions_rows[2], 1)
             row == regions_rows[r]
             src == IF which = 3 THEN row ELSE regions_rows[which]
         IN  (IF row[adm_header] = "ALL" THEN Pick(src, idxs) ELSE << >>)
             \o rows_to_insert(regions_rows, which, r + 1)

update_allregions(allregions_rows, regions_rows) ==
    IF allregions_rows = << >> THEN Returned(FALSE, "allregions", << >>)
    ELSE IF regions_rows = << >> THEN Returned(TRUE, "allregions", allregions_rows)
    ELSE Returned(TRUE, "allregions",
             [k \in 1..Len(allregions_rows) |->
                 IF k <= 3
                 THEN rows_to_insert(regions_rows, k, 3) \o allregions_rows[k]
                 ELSE allregions_rows[k]])

(***************************************************************************)
(* update_regional                                                         *)
(***************************************************************************)
\* the dict allregions_values: header -> the value of its last column
allregions_values(allregions_rows, additional_allregions_headers) ==
    IF allregions_rows = << >> THEN [h \in {} |-> None]
    ELSE [h \in Range(allregions_rows[1]) \cap additional_allregions_headers |->
             LET last == CHOOSE i \in 1..Len(allregions_rows[1]) :
                             /\ allregions_rows[1][i] = h
                             /\ \A j \in (i + 1)..Len(allregions_rows[1]) :
                                    allregions_rows[1][j] # h
             IN  allregions_rows[3][last]]

SpliceAnyRow(regional_rows, values) ==
    [r \in 1..Len(regional_rows) |->
        IF r <= 2 THEN regional_rows[r]
        ELSE [i \in 1..Len(regional_rows[r]) |->
                 IF DictGet(values, regional_rows[1][i]) # None
                 THEN DictGet(values, regional_rows[1][i])
                 ELSE regional_rows[r][i]]]

Splice(regional_rows, values) ==
    LET adm_header == IndexOf(regional_rows[2], "#region+name")
    IN  [r \in 1..Len(regional_rows) |->
            IF r <= 2 THEN regional_rows[r]
            ELSE IF regional_rows[r][adm_header] = "allregions"
                 THEN [i \in 1..Len(regional_rows[r]) |->
                          IF DictGet(values, regional_rows[1][i]) # None
                          THEN DictGet(values, regional_rows[1][i])
                          ELSE regional_rows[r][i]]
                 ELSE regional_rows[r]]

update_regional(regional_rows, allregions_rows, additional_allregions_headers) ==
    IF regional_rows = << >> THEN Returned(FALSE, "regional", << >>)
    ELSE Returned(TRUE, "regional",
             Splice(regional_rows,
                    allregions_values(allregions_rows, additional_allregions_headers)))

(***************************************************************************)
(* The runner and the registries (external collaborators).                 *)
(*                                                                         *)
(* runner.get_rows(level, adms, headers, row_fns, names): no table when    *)
(* the runner holds no results for the level; else the two header rows     *)
(* (the identifying headers, then one column per name, in the order of     *)
(* names) and one row per adm (row_fns applied to the adm, then each       *)
(* name's value for the adm, None where it has none).  An exception of a   *)
(* row function leaves get_rows.                                           *)
(***************************************************************************)
ScraperNames == {"s1", "s2"}
ScraperHxl == [s1 |-> "#s1", s2 |-> "#s2"]
NameLists == {<< >>, <<"s1">>, <<"s2">>, <<"s1", "s2">>, <<"s2", "s1">>}

get_rows(hasResults, store, adms, headers, row_fns, names) ==
    IF ~hasResults THEN [raised |-> "none", rows |-> << >>]
    ELSE IF \E a \in 1..Len(adms), f \in 1..Len(row_fns) : row_fns[f][adms[a]] = KeyError
    THEN [raised |-> "KeyError", rows |-> << >>]
    ELSE [raised |-> "none",
          rows |->
             << headers[1] \o [n \in 1..Len(names) |-> names[n]],
                headers[2] \o [n \in 1..Len(names) |-> ScraperHxl[names[n]]] >>
             \o [a \in 1..Len(adms) |->
                    [f \in 1..Len(row_fns) |-> row_fns[f][adms[a]]]
                    \o [n \in 1..Len(names) |-> DictGet(store[names[n]], adms[a])]]]

Countries == {"AAA", "BBB"}
\* Country.get_country_name_from_iso3
CountryName == [AAA |-> "Aland", BBB |-> "Bland"]

\* a runner store: per scraper name, the adms it has a value for
Stores(adms) == {[n \in ScraperNames |-> [a \in D[n] |-> "x"]] : D \in [ScraperNames -> SUBSET adms]}

(***************************************************************************)
(* update_national                                                         *)
(***************************************************************************)
national_fns ==
    << [adm \in Countries |-> adm], [adm \in Countries |-> CountryName[adm]] >>

update_national(hasResults, store, names, countrylist) ==
    LET got == get_rows(hasResults, store, countrylist, national_headers, national_fns, names)
    IN  IF got.raised # "none" THEN Raised(got.raised, "national")
        ELSE Returned(TRUE, "national", got.rows)

(***************************************************************************)
(* update_subnational                                                      *)
(***************************************************************************)
Pcodes == {"P1", "P2"}
PcodeIso3 == [P1 |-> "AAA", P2 |-> "BBB"]
PcodeName == [P1 |-> "Province1", P2 |-> "Province2"]

\* an admin registry: its pcodes and its two pcode tables
AdminLevels ==
    {[pcodes |-> ps,
      pcode_to_iso3 |-> [p \in D1 |-> PcodeIso3[p]],
      pcode_to_name |-> [p \in D2 |-> PcodeName[p]]] :
        ps \in SeqsUpTo(Pcodes, MaxRows), D1 \in SUBSET Pcodes, D2 \in SUBSET Pcodes}

\* d[k]
Subscript(d, k) == IF k \in DOMAIN d THEN d[k] ELSE KeyError

subnational_fns(adminone) ==
    << [adm \in Pcodes |-> Subscript(adminone.pcode_to_iso3, adm)],
       [adm \in Pcodes |->
           IF Subscript(adminone.pcode_to_iso3, adm) = KeyError THEN KeyError
           ELSE CountryName[adminone.pcode_to_iso3[adm]]],
       [adm \in Pcodes |-> adm],
       [adm \in Pcodes |-> Subscript(adminone.pcode_to_name, adm)] >>

update_subnational(hasResults, store, names, adminone) ==
    LET got == get_rows(hasResults, store, adminone.pcodes, subnational_headers,
                        subnational_fns(adminone), names)
    IN  IF got.raised # "none" THEN Raised(got.raised, "subnational")
        ELSE Returned(TRUE, "subnational", got.rows)

SubnationalStore == [s1 |-> [a \in {"P1"} |-> "x"], s2 |-> [a \in {} |-> "x"]]

(***************************************************************************)
(* update_sources                                                          *)
(***************************************************************************)
SourceRows ==
    {<<"Population", "2022-01-01", "UNFPA", "https://a">>,
     <<"Funding", "2022-05-01", "FTS", "https://b">>}

update_sources(sources) == Returned(TRUE, "sources", sources_headers \o sources)

(***************************************************************************)
(* The tables the operations are applied to, of the shape runner.get_rows  *)
(* builds for the regional and the allregions level: no table, or two      *)
(* header rows and the data rows, all of one length.                       *)
(***************************************************************************)
ColumnLayouts ==
    {<< >>, << <<"h1", "#t1">> >>, << <<"h2", "#t2">> >>,
     << <<"h1", "#t1">>, <<"h2", "#t2">> >>}
RegionNames == {"ALL", "allregions", "R1"}
AllowNames == {"h1", "#t1", "h2"}

RegionalTable(layout, regions) ==
    << regions_headers[1] \o [j \in 1..Len(layout) |-> layout[j][1]],
       regions_headers[2] \o [j \in 1..Len(layout) |-> layout[j][2]] >>
    \o [i \in 1..Len(regions) |-> <<regions[i]>> \o [j \in 1..Len(layout) |-> "r"]]

RegionalTables ==
    {<< >>} \cup {RegionalTable(l, rn) : l \in ColumnLayouts, rn \in SeqsUpTo(RegionNames, MaxRows)}

AllregionsTables ==
    {<< >>} \cup
    UNION {{<< [j \in 1..Len(l) |-> l[j][1]], [j \in 1..Len(l) |-> l[j][2]], vals >> :
               vals \in [1..Len(l) -> {"v", None}]} : l \in ColumnLayouts}

\* what a caller hands update_tab directly: nothing, or a tab with data rows
DirectTabs ==
    {<< >>, << <<"a">>, <<"#a">>, <<"1">> >>,
     << <<"a", "b">>, <<"#a", "#b">>, <<"1", "2">>, <<"3", None>> >>}

(***************************************************************************)
(* SpecTabs: one operation of update_tabs.py applied to inputs drawn from  *)
(* the sets above, under every outputs mapping.                            *)
(***************************************************************************)
IdleRun ==
    /\ entry = "idle" /\ pc = "idle" /\ cli = [none |-> TRUE] /\ tabs = {}
    /\ countries = << >> /\ events = << >> /\ updates = << >>
    /\ nationalArg = [none |-> TRUE] /\ returned = [none |-> TRUE]

InitTabs ==
    /\ outputs \in OutputsMappings
    /\ op = "none"
    /\ args = [none |-> TRUE]
    /\ raised = "none"
    /\ assembled = << >>
    /\ calls = NoCalls(outputs)
    /\ content = [k \in DOMAIN outputs |-> [t \in TabNames |-> Prior]]
    /\ IdleRun

\* the operation opname, given args a, came back with res
Ran(opname, a, res) ==
    /\ op' = opname
    /\ args' = a
    /\ raised' = res.raised
    /\ assembled' = IF res.called THEN res.data ELSE << >>
    /\ calls' = IF res.called THEN update_tab(outputs, res.name, res.data) ELSE NoCalls(outputs)
    /\ content' = [k \in DOMAIN outputs |->
                      IF calls'[k] = << >> THEN content[k]
                      ELSE SinkUpdateTab(outputs[k], content[k],
                                         calls'[k][Len(calls'[k])].name,
                                         calls'[k][Len(calls'[k])].data)]
    /\ UNCHANGED <<outputs, runVars>>

UpdateTab ==
    /\ op = "none"
    /\ \E name \in TabNames, data \in DirectTabs :
           Ran("update_tab", [name |-> name, data |-> data], Returned(TRUE, name, data))

UpdateAllregions ==
    /\ op = "none"
    /\ \E a \in AllregionsTables, r \in RegionalTables :
           Ran("update_allregions", [allregions_rows |-> a, regions_rows |-> r],
               update_allregions(a, r))

UpdateRegional ==
    /\ op = "none"
    /\ \E r \in RegionalTables, a \in AllregionsTables, allow \in SUBSET AllowNames :
           Ran("update_regional",
               [regional_rows |-> r, allregions_rows |-> a,
                additional_allregions_headers |-> allow],
               update_regional(r, a, allow))

UpdateNational ==
    /\ op = "none"
    /\ \E has \in BOOLEAN, names \in NameLists, cs \in SeqsUpTo(Countries, MaxRows) :
           \E store \in Stores(Countries) :
               Ran("update_national",
                   [hasResults |-> has, store |-> store, names |-> names, countries |-> cs],
                   update_national(has, store, names, cs))

UpdateSubnational ==
    /\ op = "none"
    /\ \E has \in BOOLEAN, names \in NameLists, adminone \in AdminLevels :
           Ran("update_subnational",
               [hasResults |-> has, names |-> names, adminone |-> adminone],
               update_subnational(has, SubnationalStore, names, adminone))

UpdateSources ==
    /\ op = "none"
    /\ \E sources \in SeqsUpTo(SourceRows, MaxRows) :
           Ran("update_sources", [sources |-> sources], update_sources(sources))

NextTabs ==
    \/ UpdateTab
    \/ UpdateSources
    \/ UpdateAllregions
    \/ UpdateRegional
    \/ UpdateNational
    \/ UpdateSubnational

SpecTabs == InitTabs /\ [][NextTabs]_vars

(***************************************************************************)
(* Properties of update_tabs.py, checked under SpecTabs.                   *)
(***************************************************************************)
\* the tab name an operation dispatches under
TabOf ==
    IF op = "update_tab" THEN args.name
    ELSE [update_allregions |-> "allregions", update_regional |-> "regional",
          update_national |-> "national", update_subnational |-> "subnational",
          update_sources |-> "sources"][op]

Ended == op # "none" /\ raised = "none"
\* update_tab was reached with truthy data
Dispatching == Ended /\ assembled # << >>
NoSinkCalled == \A k \in DOMAIN outputs : calls[k] = << >>
SinksUnchanged == \A k \in DOMAIN outputs : content[k] = [t \in TabNames |-> Prior]

\* C1: whatever the operation and the sinks, a tab assembled with zero data rows
\* (at most the two header rows) reaches no sink: no update_tab call is made
\* and every sink holds what it held.
C1_ZeroRowTabNeverDispatched ==
    (Ended /\ Len(assembled) <= 2) => (NoSinkCalled /\ SinksUnchanged)

\* A falsy tab (no rows at all, header rows included) reaches no sink.
FalsyTabNeverDispatched ==
    (Ended /\ assembled = << >>) => (NoSinkCalled /\ SinksUnchanged)

\* C2: the national table that is dispatched starts with the columns ISO3 and
\* country name, in that order, followed by one column per requested scraper in
\* the order of names, and has one row per country of the input list; a scraper
\* without a value for a country leaves None in its cell.
C2_NationalIdentifyingColumns ==
    (op = "update_national" /\ Dispatching) =>
        LET t == assembled
            names == args.names
            cs == args.countries
            n == Len(names)
        IN  /\ Len(t) = 2 + Len(cs)
            /\ t[1] = <<"iso3", "countryname">> \o names
            /\ t[2] = <<"#country+code", "#country+name">>
                          \o [j \in 1..n |-> ScraperHxl[names[j]]]
            /\ \A i \in 1..Len(cs) :
                  /\ Len(t[2 + i]) = 2 + n
                  /\ t[2 + i][1] = cs[i]
                  /\ t[2 + i][2] = CountryName[cs[i]]
                  /\ \A j \in 1..n :
                        t[2 + i][2 + j] = DictGet(args.store[names[j]], cs[i])
            /\ \A k \in DOMAIN outputs :
                  calls[k] = << [name |-> "national", data |-> t] >>

C2_Witness ==
    /\ op = "update_national" /\ Dispatching
    /\ args.countries = <<"AAA", "BBB">> /\ args.names = <<"s2", "s1">>
    /\ assembled[3][3] = None /\ assembled[4][3] # None
    /\ assembled[3][4] # None /\ assembled[4][4] = None
    /\ \E k \in DOMAIN outputs : content[k]["national"] = assembled

\* C3: subnational assembly never raises; with results in the runner the table
\* dispatched holds exactly the rows of the pcodes both pcode tables know, in
\* the order of adminone.pcodes.
C3_UnknownPcodeSkipped ==
    (op = "update_subnational") =>
        LET adminone == args.adminone
            Known(p) == p \in DOMAIN adminone.pcode_to_iso3
                        /\ p \in DOMAIN adminone.pcode_to_name
            kept == SelectSeq(adminone.pcodes, Known)
        IN  /\ raised = "none"
            /\ args.hasResults =>
                  /\ Len(assembled) = 2 + Len(kept)
                  /\ \A i \in 1..Len(kept) : assembled[2 + i][3] = kept[i]

C5_DispatchedTabShape ==
    \A k \in DOMAIN outputs : \A c \in 1..Len(calls[k]) :
        LET t == calls[k][c].data
        IN  /\ Len(t) >= 3
            /\ \A r \in 1..Len(t) : Len(t[r]) = Len(t[1])

\* The rows of every tab a sink receives have one length.
DispatchedRowsAligned ==
    \A k \in DOMAIN outputs : \A c \in 1..Len(calls[k]) :
        LET t == calls[k][c].data
        IN  \A r \in 1..Len(t) : Len(t[r]) = Len(t[1])

PyNone == [none |-> TRUE]          \* None where a list or a set is expected
Some(v) == [val |-> v]
TruthyList(o) == o # PyNone /\ o.val # << >>
TruthyStr(s) == s # None /\ s # ""

ConfigTabs == TabNames                   \* the keys of configuration["tabs"]
ConfigCountries == <<"AAA", "BBB">>      \* configuration["countries"]

\* the parameters of get_indicators, and the positional arguments of its callers
GetIndicatorsParams ==
    <<"configuration", "today", "outputs", "tabs", "scrapers_to_run",
      "countries_override", "errors_on_exit", "use_live", "fallbacks_root">>
MainCallArgs ==
    <<"configuration", "today", "retriever", "outputs", "updatetabs", "scrapers_to_run",
      "basic_auths", "other_auths", "countries_override", "errors_on_exit">>
TestCallArgs == <<"configuration", "today", "outputs", "tabs", "None">>
\* a call with more positional arguments than parameters raises TypeError
CallBinds(positional) == Len(positional) <= Len(GetIndicatorsParams)

IdleTabs ==
    /\ op = "none" /\ args = [none |-> TRUE] /\ raised = "none"
    /\ assembled = << >> /\ calls = << >> /\ content = << >>

MainInputs ==
    [excel_path : {None, "", "out.xlsx"},
     gsheet_auth : {None, "", "creds"},
     nojson : BOOLEAN,
     updatetabs : {PyNone, Some({"national"}), Some({"regional", "sources"})},
     countries_override : {PyNone, Some(<<"BBB">>)}]

CallInputs ==
    [tabs : SUBSET TabNames,
     countries_override : {PyNone, Some(<< >>), Some(<<"BBB">>)}]

InitRun ==
    /\ entry \in {"main", "call"}
    /\ cli \in IF entry = "main" THEN MainInputs ELSE CallInputs
    /\ pc = "start"
    /\ outputs = << >>
    /\ tabs = {}
    /\ countries = << >>
    /\ events = << >>
    /\ updates = << >>
    /\ nationalArg = PyNone
    /\ returned = PyNone
    /\ IdleTabs

\* run.main: the tabs to update
MainTabs ==
    /\ entry = "main" /\ pc = "start"
    /\ tabs' = IF cli.updatetabs = PyNone THEN ConfigTabs ELSE cli.updatetabs.val
    /\ pc' = "sinks"
    /\ UNCHANGED <<outputs, tabVars, entry, cli, countries, events, updates,
                   nationalArg, returned>>

MainSinksNotNone ==
    /\ entry = "main" /\ pc = "sinks"
    /\ outputs' = [gsheets |-> IF cli.gsheet_auth # None THEN "GoogleSheets" ELSE NoOp,
                   excel |-> IF cli.excel_path # None THEN "ExcelFile" ELSE NoOp,
                   json |-> IF cli.nojson THEN NoOp ELSE "JsonFile"]
    /\ pc' = "call"
    /\ UNCHANGED <<tabVars, entry, cli, tabs, countries, events, updates,
                   nationalArg, returned>>

\* run.main: one sink per slot, the no-op sink where the slot is not configured
MainSinks ==
    /\ entry = "main" /\ pc = "sinks"
    /\ outputs' = [gsheets |-> IF TruthyStr(cli.gsheet_auth) THEN "GoogleSheets" ELSE NoOp,
                   excel |-> IF TruthyStr(cli.excel_path) THEN "ExcelFile" ELSE NoOp,
                   json |-> IF cli.nojson THEN NoOp ELSE "JsonFile"]
    /\ pc' = "call"
    /\ UNCHANGED <<tabVars, entry, cli, tabs, countries, events, updates,
                   nationalArg, returned>>

\* the test: a no-op sink for gsheets and excel, a JSON sink, the tabs argument
CallerSetup ==
    /\ entry = "call" /\ pc = "start"
    /\ outputs' = [gsheets |-> NoOp, excel |-> NoOp, json |-> "JsonFile"]
    /\ tabs' = cli.tabs
    /\ pc' = "call"
    /\ UNCHANGED <<tabVars, entry, cli, countries, events, updates, nationalArg, returned>>

(***************************************************************************)
(* get_indicators: its statements in order.                                *)
(***************************************************************************)
GiStepsRunBeforeCustoms ==
    <<"setup", "runner", "add_configurables", "construct_customs", "run", "add_customs",
      "add_aggregators", "writer", "national", "regional_rows", "regional",
      "allregions", "subnational", "admin_output", "sources", "return">>

GiSteps ==
    <<"setup", "runner", "add_configurables", "construct_customs", "add_customs",
      "add_aggregators", "run", "writer", "national", "regional_rows", "regional",
      "allregions", "subnational", "admin_output", "sources", "return">>

After(step) ==
    IF IndexOf(GiSteps, step) = Len(GiSteps) THEN "returned"
    ELSE GiSteps[IndexOf(GiSteps, step) + 1]

\* The call of get_indicators by run.main and by the test.  run.main passes ten
\* positional arguments, get_indicators has nine parameters: that call raises
\* TypeError and run.main ends there.  The test's call binds.
CallGetIndicators ==
    /\ pc = "call"
    /\ pc' = IF CallBinds(IF entry = "main" THEN MainCallArgs ELSE TestCallArgs)
             THEN GiSteps[1] ELSE "TypeError"
    /\ UNCHANGED <<outputs, tabVars, entry, cli, tabs, countries, events, updates,
                   nationalArg, returned>>

\* a statement of get_indicators that assembles no tab: its calls, in order
Step(step, called) ==
    /\ pc = step
    /\ pc' = After(step)
    /\ events' = events \o called
    /\ UNCHANGED <<outputs, tabVars, entry, cli, tabs, updates, nationalArg, returned>>

GI_Setup ==
    /\ countries' = IF TruthyList(cli.countries_override) THEN cli.countries_override.val
                    ELSE ConfigCountries
    /\ Step("setup", <<"Country.countriesdata", "AdminLevel", "RegionLookup.load",
                       "Fallbacks.add">>)

GI_Runner == Step("runner", <<"Runner">>) /\ UNCHANGED countries

GI_AddConfigurables ==
    /\ Step("add_configurables",
            <<"add_configurables:national", "add_configurables:subnational",
              "add_configurables:allregions">>)
    /\ UNCHANGED countries

GI_ConstructCustoms ==
    /\ Step("construct_customs",
            <<"IPC", "FTS", "UNHCR", "Inform", "WhoWhatWhere", "IOMDTM">>)
    /\ UNCHANGED countries

GI_AddCustoms == Step("add_customs", <<"add_customs">>) /\ UNCHANGED countries

GI_AddAggregators == Step("add_aggregators", <<"add_aggregators">>) /\ UNCHANGED countries

GI_Run == Step("run", <<"runner.run">>) /\ UNCHANGED countries

GI_Writer == Step("writer", <<"Writer">>) /\ UNCHANGED countries

GI_RegionalRows ==
    Step("regional_rows", <<"writer.get_regional_rows">>) /\ UNCHANGED countries

GI_AdminOutput ==
    /\ Step("admin_output", <<"adminlevel.output_matches", "adminlevel.output_ignored",
                              "adminlevel.output_errors">>)
    /\ UNCHANGED countries

\* a statement "if <tab> in tabs: writer.update_...": the writer's calls, in order
TabStepUnguarded(step, tab, called) ==
    /\ pc = step
    /\ pc' = After(step)
    /\ events' = events \o called
    /\ updates' = Append(updates, tab)
    /\ UNCHANGED <<outputs, tabVars, entry, cli, tabs, countries, returned>>

TabStep(step, tab, called) ==
    /\ pc = step
    /\ pc' = After(step)
    /\ events' = IF tab \in tabs THEN events \o called ELSE events
    /\ updates' = IF tab \in tabs THEN Append(updates, tab) ELSE updates
    /\ UNCHANGED <<outputs, tabVars, entry, cli, tabs, countries, returned>>

GI_National ==
    /\ TabStep("national", "national", <<"writer.update_national">>)
    /\ nationalArg' = IF "national" \in tabs THEN Some(countries) ELSE nationalArg

GI_Regional ==
    /\ TabStep("regional", "regional", <<"writer.update_regional">>)
    /\ UNCHANGED nationalArg

GI_Allregions ==
    /\ TabStep("allregions", "allregions",
               <<"writer.get_toplevel_rows", "writer.update_toplevel">>)
    /\ UNCHANGED nationalArg

GI_Subnational ==
    /\ TabStep("subnational", "subnational", <<"writer.update_subnational">>)
    /\ UNCHANGED nationalArg

GI_Sources ==
    /\ TabStep("sources", "sources", <<"writer.update_sources">>)
    /\ UNCHANGED nationalArg

GI_Return ==
    /\ pc = "return"
    /\ pc' = After("return")
    /\ returned' = Some(countries)
    /\ events' = Append(events, "return")
    /\ UNCHANGED <<outputs, tabVars, entry, cli, tabs, countries, updates, nationalArg>>

\* after get_indicators has returned: run.main saves the JSON sink, then the Excel
\* sink (statements its TypeError keeps it from reaching); the test saves the JSON
\* sink
Persist ==
    /\ pc = "returned"
    /\ pc' = "done"
    /\ events' = events \o (IF entry = "main"
                            THEN <<"json.add_additional_json", "json.save", "excel.save">>
                            ELSE <<"json.save">>)
    /\ UNCHANGED <<outputs, tabVars, entry, cli, tabs, countries, updates, nationalArg,
                   returned>>

NextRun ==
    \/ MainTabs
    \/ MainSinks
    \/ CallerSetup
    \/ CallGetIndicators
    \/ GI_Setup
    \/ GI_Runner
    \/ GI_AddConfigurables
    \/ GI_ConstructCustoms
    \/ GI_AddCustoms
    \/ GI_AddAggregators
    \/ GI_Run
    \/ GI_Writer
    \/ GI_National
    \/ GI_RegionalRows
    \/ GI_Regional
    \/ GI_Allregions
    \/ GI_Subnational
    \/ GI_AdminOutput
    \/ GI_Sources
    \/ GI_Return
    \/ Persist

SpecRun == InitRun /\ [][NextRun]_vars

(***************************************************************************)
(* Properties of run.main and get_indicators, checked under SpecRun.       *)
(***************************************************************************)
\* the position of the first occurrence of a call, 0 when it was not made
Pos(e) == IF e \in Range(events) THEN IndexOf(events, e) ELSE 0
\* b was made only after a
Precedes(a, b) == Pos(b) # 0 => (Pos(a) # 0 /\ Pos(a) < Pos(b))
Once(e) == Cardinality({i \in 1..Len(events) : events[i] = e}) <= 1

SinksBuilt == entry = "main" /\ pc \notin {"start", "sinks"}

\* C7: once run.main has built the outputs mapping it has exactly the keys
\* gsheets, excel and json; excel holds an ExcelFile iff excel_path is a non-empty
\* string, gsheets a GoogleSheets iff gsheet_auth is a non-empty string, json a
\* JsonFile iff nojson is false, and every other slot holds the no-op BaseOutput.
C7_SinkConstruction ==
    SinksBuilt =>
        /\ DOMAIN outputs = {"gsheets", "excel", "json"}
        /\ outputs["excel"] = IF TruthyStr(cli.excel_path) THEN "ExcelFile" ELSE NoOp
        /\ outputs["gsheets"] = IF TruthyStr(cli.gsheet_auth) THEN "GoogleSheets" ELSE NoOp
        /\ outputs["json"] = IF cli.nojson THEN NoOp ELSE "JsonFile"

C7_Witness ==
    /\ SinksBuilt
    /\ cli.excel_path = "" /\ cli.gsheet_auth = "creds" /\ cli.nojson
    /\ outputs = [gsheets |-> "GoogleSheets", excel |-> NoOp, json |-> NoOp]

Registrations ==
    {"Runner", "add_configurables:national", "add_configurables:subnational",
     "add_configurables:allregions", "IPC", "FTS", "UNHCR", "Inform", "WhoWhatWhere",
     "IOMDTM", "add_customs", "add_aggregators"}
TabCalls ==
    {"writer.update_national", "writer.get_regional_rows", "writer.update_regional",
     "writer.get_toplevel_rows", "writer.update_toplevel", "writer.update_subnational",
     "writer.update_sources"}
Saves == {"json.add_additional_json", "json.save", "excel.save"}

\* C9: runner.run is called once, after every scraper was constructed and
\* registered (add_configurables, add_customs, add_aggregators); every tab is
\* assembled and updated after runner.run; the sinks are saved (JSON, then Excel)
\* only after get_indicators has returned, hence after every tab update.
C9_RunOrdering ==
    /\ Once("runner.run")
    /\ \A r \in Registrations : Precedes(r, "runner.run") /\ Once(r)
    /\ \A t \in TabCalls : Precedes("runner.run", t)
    /\ \A t \in TabCalls : Pos("return") # 0 => Pos(t) < Pos("return")
    /\ \A v \in Saves : Precedes("return", v)
    /\ \A v \in Saves, t \in TabCalls : Pos(v) # 0 => Pos(t) < Pos(v)
    /\ Precedes("json.save", "excel.save")

C9_Witness ==
    /\ pc = "done"
    /\ tabs = TabNames
    /\ Pos("add_customs") # 0 /\ Pos("add_customs") < Pos("runner.run")
    /\ Pos("runner.run") < Pos("writer.update_national")
    /\ Pos("writer.update_sources") < Pos("return")
    /\ Pos("return") < Pos("json.save")

\* the writer's calls that update each tab
WriterCalls ==
    [national |-> {"writer.update_national"},
     regional |-> {"writer.update_regional"},
     allregions |-> {"writer.get_toplevel_rows", "writer.update_toplevel"},
     subnational |-> {"writer.update_subnational"},
     sources |-> {"writer.update_sources"}]

ExpectedCountries ==
    IF TruthyList(cli.countries_override) THEN cli.countries_override.val
    ELSE ConfigCountries

\* C10: each of the five tabs is updated at most once and only if its name is in
\* tabs; the countries passed to the national update and returned to the caller
\* are countries_override when it is non-empty and configuration["countries"]
\* otherwise.
C10_TabGating ==
    /\ \A i, j \in 1..Len(updates) : i # j => updates[i] # updates[j]
    /\ \A i \in 1..Len(updates) : updates[i] \in tabs /\ updates[i] \in TabNames
    /\ \A t \in TabNames : \A e \in WriterCalls[t] :
          /\ Once(e)
          /\ Pos(e) # 0 => (t \in tabs /\ t \in Range(updates))
    /\ nationalArg # PyNone => nationalArg = Some(ExpectedCountries)
    /\ returned # PyNone => returned = Some(ExpectedCountries)
    /\ pc \in {"returned", "done"} =>
          /\ returned # PyNone
          /\ ("national" \in tabs => nationalArg # PyNone)

C10_Witness ==
    /\ pc = "done"
    /\ tabs = {"national", "sources"}
    /\ updates = <<"national", "sources">>
    /\ cli.countries_override = Some(<<"BBB">>)
    /\ nationalArg = Some(<<"BBB">>)
    /\ returned = Some(<<"BBB">>)

====
